---- MODULE Spec2Model ----
(***************************************************************************)
(* diffdb: differential state tracking on top of a transactional key/value *)
(* store.  The model follows src/diff.go: one Differential handle on one   *)
(* named collection, its four buckets (_m, _ph, _pd, _dk), the operations  *)
(* Add, MustNotConflict and Each, the fingerprint function HashOf and the  *)
(* msgpack payload codec.                                                  *)
(***************************************************************************)
EXTENDS Integers, Sequences, FiniteSets, TLC

\* Bounds of the model: how many identities and how many values callers use.
NumIds == 2
NumValues == 2

-----------------------------------------------------------------------------
(* Byte strings.  A Go []byte is a sequence of numbers 0..255; nil and the  *)
(* empty slice are both <<>> (bytes.Compare does not tell them apart).      *)

\* bytes.Compare: lexicographic order, -1 / 0 / 1.
RECURSIVE BytesCompare(_, _)
BytesCompare(a, b) ==
    IF a = <<>> /\ b = <<>> THEN 0
    ELSE IF a = <<>> THEN -1
    ELSE IF b = <<>> THEN 1
    ELSE IF a[1] < b[1] THEN -1
    ELSE IF a[1] > b[1] THEN 1
    ELSE BytesCompare(Tail(a), Tail(b))

\* Bitwise exclusive or of two bytes.
RECURSIVE XorByte(_, _)
XorByte(a, b) ==
    IF a = 0 THEN b
    ELSE IF b = 0 THEN a
    ELSE ((a + b) % 2) + 2 * XorByte(a \div 2, b \div 2)

\* binary.LittleEndian.PutUint64 for a number below 2^31: 8 bytes, low first.
RECURSIVE LittleEndian(_, _)
LittleEndian(v, n) ==
    IF n = 0 THEN <<>> ELSE <<v % 256>> \o LittleEndian(v \div 256, n - 1)

-----------------------------------------------------------------------------
(* HashOf: hashstructure.Hash(x, nil) of a Go int is the 64-bit FNV-1a     *)
(* digest of the value written as a little-endian int64; HashOf stores the *)
(* digest as 8 little-endian bytes.  The 64-bit arithmetic is done on the  *)
(* 8 bytes, low byte first.                                                *)

\* FNV-1a 64 offset basis 0xcbf29ce484222325, low byte first.
FnvOffset64 == <<37, 35, 34, 132, 228, 156, 242, 203>>

\* h * 0x100000001b3 mod 2^64: h * 435 plus h shifted left by 40 bits.
RECURSIVE FnvMulPrime(_, _, _)
FnvMulPrime(h, i, carry) ==
    IF i > 8 THEN <<>>
    ELSE LET t == h[i] * 435 + (IF i > 5 THEN h[i - 5] ELSE 0) + carry
         IN  <<t % 256>> \o FnvMulPrime(h, i + 1, t \div 256)

\* fnv.New64a().Write(data) starting from digest h.
RECURSIVE Fnv64a(_, _)
Fnv64a(h, data) ==
    IF data = <<>> THEN h
    ELSE Fnv64a(FnvMulPrime([h EXCEPT ![1] = XorByte(h[1], data[1])], 1, 0),
                Tail(data))

\* hashstructure.Hash of a Go int: FNV-1a over its 8 little-endian bytes.
Hash(x) == Fnv64a(FnvOffset64, LittleEndian(x, 8))

-----------------------------------------------------------------------------
(* Payload codec: msgpack.Marshal of a non-negative Go int and the decoder  *)
(* handed to the apply callback.                                            *)

\* positive fixint below 128, uint8 (0xcc) below 256, uint16 (0xcd, big endian).
Marshal(x) ==
    IF x <= 127 THEN <<x>>
    ELSE IF x <= 255 THEN <<204, x>>
    ELSE <<205, x \div 256, x % 256>>

\* msgpackDecoder.Decode into an int.
Decode(data) ==
    IF data[1] <= 127 THEN data[1]
    ELSE IF data[1] = 204 THEN data[2]
    ELSE data[2] * 256 + data[3]

-----------------------------------------------------------------------------
(* Buckets: a bucket is a function from the keys it holds to their values. *)

EmptyBucket == <<>>

\* Bucket.Get(k) != nil
Has(b, k) == k \in DOMAIN b

\* Bucket.Get(k); nil (<<>>) when the key is absent.
Get(b, k) == IF k \in DOMAIN b THEN b[k] ELSE <<>>

\* Bucket.Put(k, v)
Put(b, k, v) == [y \in (DOMAIN b) \cup {k} |-> IF y = k THEN v ELSE b[y]]

\* Bucket.Delete(k); deleting an absent key is not an error.
Delete(b, k) == [y \in (DOMAIN b) \ {k} |-> b[y]]

\* Bucket.Stats().KeyN
KeyN(b) == Cardinality(DOMAIN b)

\* Cursor order: the keys of a bucket in ascending byte order, with values.
RECURSIVE CursorOver(_, _)
CursorOver(b, keys) ==
    IF keys = {} THEN <<>>
    ELSE LET k == CHOOSE y \in keys : \A z \in keys : BytesCompare(y, z) <= 0
         IN  <<[id |-> k, hash |-> b[k]]>> \o CursorOver(b, keys \ {k})

Cursor(b) == CursorOver(b, DOMAIN b)

-----------------------------------------------------------------------------
\* Identities are the keys "0", "1", ... (strconv.Itoa); values are Go ints
\* on both sides of the msgpack fixint / uint8 boundary.
Ids == {<<48 + i>> : i \in 0 .. NumIds - 1}
Values == {126 + i : i \in 1 .. NumValues}

\* HashOf(x): the digest of x as 8 raw little-endian bytes (computed once per
\* value of the model).
Fingerprints == [x \in Values |-> Hash(x)]
HashOf(x) == Fingerprints[x]


\* Errors.  A call returns a sequence of errors: <<>> is Go's nil error, Add
\* returns at most one, Each returns the list held by its multierror.
\* An error is its message and, for a callback's error, the identity it was
\* returned for.
ErrConflictingKey ==
    [msg |-> "diffdb: multiple objects with the same ID were added in the same change version",
     id |-> <<>>]
Canceled == [msg |-> "context canceled", id |-> <<>>]
ErrApply(id) == [msg |-> "apply failed", id |-> id]

-----------------------------------------------------------------------------
VARIABLES
    bh,             \* bucket _m : identity -> committed fingerprint
    bph,            \* bucket _ph: identity -> pending fingerprint
    bphd,           \* bucket _pd: fingerprint -> encoded payload
    bkc,            \* bucket _dk: identity -> conflict marker
    trackConflicts, \* Differential.trackConflicts
    pc,             \* "idle", "oncommit", "scan", "commit", "returned", "panic", ...
    op,             \* the call in progress or just returned
    ret,            \* what the returned call returned
    tx,             \* Each's write transaction: its view of _m, _ph, _pd
    cur,            \* Each's cursor: the entries of _ph still to visit
    updateErr,      \* Each's multierror
    ctxDone,        \* whether Each's context has been cancelled
    calls,          \* the callback invocations of the scan, in order
    doneAt,         \* how many callbacks had run when the context was cancelled
    latest,         \* identity -> value of its most recent accepted Add not yet applied
    cycleAdds,      \* identities with an accepted Add since the last MustNotConflict
    waiting         \* calls issued while the write lock was held, not yet begun

store == <<bh, bph, bphd, bkc>>
scan == <<tx, cur, updateErr, ctxDone, calls, doneAt>>
vars == <<bh, bph, bphd, bkc, trackConflicts, pc, op, ret, tx, cur, updateErr,
          ctxDone, calls, doneAt, latest, cycleAdds, waiting>>

NoOp == [name |-> "none"]
NoTx == [bh |-> EmptyBucket, bph |-> EmptyBucket, bphd |-> EmptyBucket]
NoScan ==
    /\ tx' = NoTx
    /\ cur' = <<>>
    /\ updateErr' = <<>>
    /\ ctxDone' = FALSE
    /\ calls' = <<>>
    /\ doneAt' = -1

\* DB.Open on a fresh file: the four buckets exist and are empty, _dk does not
\* exist yet (an absent _dk and an empty one hold the same markers: none).
Init ==
    /\ bh = EmptyBucket
    /\ bph = EmptyBucket
    /\ bphd = EmptyBucket
    /\ bkc = EmptyBucket
    /\ trackConflicts = FALSE
    /\ pc = "idle"
    /\ op = NoOp
    /\ ret = <<>>
    /\ tx = NoTx
    /\ cur = <<>>
    /\ updateErr = <<>>
    /\ ctxDone = FALSE
    /\ calls = <<>>
    /\ doneAt = -1
    /\ latest = [id \in Ids |-> -1]
    /\ cycleAdds = {}
    /\ waiting = {}

-----------------------------------------------------------------------------
\* A slip in the reset: _dk is created only if absent, its markers stay.
ResetMarkersKeeps(b) == b

\* DeleteBucket(_dk) if it exists, then CreateBucket(_dk): no marker is left.
ResetMarkers(b) == EmptyBucket

\* MustNotConflict up to the end of its update transaction: _dk is dropped
\* and recreated and the transaction commits, which releases the write lock;
\* the commit handler that sets the flag has not run yet.
MustNotConflictCall ==
    /\ pc = "idle"
    /\ bkc' = ResetMarkers(bkc)
    /\ pc' = "oncommit"
    /\ op' = [name |-> "MustNotConflict"]
    /\ ret' = <<>>
    /\ UNCHANGED <<bh, bph, bphd, trackConflicts, scan>>

MustNotConflict == MustNotConflictCall /\ UNCHANGED <<latest, cycleAdds, waiting>>

\* tx.OnCommit(func(){ diff.trackConflicts = true }): the handler runs after
\* the commit, outside the write lock, and MustNotConflict returns.
OnCommit ==
    /\ pc = "oncommit"
    /\ trackConflicts' = TRUE
    /\ pc' = "returned"
    /\ UNCHANGED <<store, op, ret, scan, latest, cycleAdds, waiting>>

\* A slip in the conflict check: the pending bucket is consulted, not _dk.
ConflictsOnPending(id) == trackConflicts /\ Has(bph, id)

\* Add, "Check ID conflicts": the identity already has a marker in _dk.
Conflicts(id) == trackConflicts /\ Has(bkc, id)

\* A slip in the comparison with the committed fingerprint: the pending
\* bucket is read, not the committed one.
MatchCommittedReadsPending(id, hash) == BytesCompare(Get(bph, id), hash) = 0

\* Add: the committed fingerprint of id is identical to hash.
MatchCommitted(id, hash) == BytesCompare(Get(bh, id), hash) = 0

\* Add: a pending fingerprint exists for id and is identical to hash.
MatchPending(id, hash) ==
    /\ Has(bph, id)
    /\ Len(Get(bph, id)) > 0
    /\ BytesCompare(Get(bph, id), hash) = 0

\* A slip in Add: the payload of the superseded Pending Record is left in _pd.
AddPayloadKeepsStale(id, hash, raw) == Put(bphd, hash, raw)

\* Add: _pd after the stale payload of id (if any) is deleted and the new one put.
AddPayload(id, hash, raw) ==
    Put(IF Has(bph, id) THEN Delete(bphd, Get(bph, id)) ELSE bphd, hash, raw)

\* The update transaction of Add(id, x): what it writes to the buckets.
AddTx(id, x) ==
    LET hash == HashOf(x) IN
    IF Conflicts(id) THEN
        UNCHANGED <<bph, bphd, bkc>>
    ELSE IF MatchCommitted(id, hash) \/ MatchPending(id, hash) THEN
        UNCHANGED <<bph, bphd, bkc>>
    ELSE
        /\ bph' = Put(bph, id, hash)
        /\ bphd' = AddPayload(id, hash, Marshal(x))
        /\ bkc' = IF trackConflicts THEN Put(bkc, id, <<>>) ELSE bkc

\* The update transaction of Add(id, x): the error it returns.
AddReturns(id, x) == IF Conflicts(id) THEN <<ErrConflictingKey>> ELSE <<>>

\* Add(id, x), one update transaction.
AddCall(id, x) ==
    /\ pc = "idle"
    /\ pc' = "returned"
    /\ op' = [name |-> "Add", id |-> id, x |-> x]
    /\ UNCHANGED <<bh, trackConflicts, scan>>
    /\ ret' = AddReturns(id, x)
    /\ AddTx(id, x)

Add(id, x) == AddCall(id, x) /\ UNCHANGED <<latest, cycleAdds, waiting>>

\* A slip in the comparison: the pending fingerprint is read, not the
\* committed one.
IsChangedReadsPending(id, hash) == BytesCompare(Get(bph, id), hash) # 0

\* Changed: bytes.Compare(bh.Get(id), hash) != 0.
IsChanged(id, hash) == BytesCompare(Get(bh, id), hash) # 0

\* Changed(id, x), one read-only transaction; the answer is kept with the call.
Changed(id, x) ==
    /\ pc = "idle"
    /\ pc' = "returned"
    /\ op' = [name |-> "Changed", id |-> id, x |-> x,
              changed |-> IsChanged(id, HashOf(x))]
    /\ ret' = <<>>
    /\ UNCHANGED <<store, trackConflicts, scan, latest, cycleAdds, waiting>>

-----------------------------------------------------------------------------
(* Each: one read-write transaction held for the whole scan.  The cursor    *)
(* walks the pages of _ph as they were when the scan began; the writes of   *)
(* the scan go to the transaction and reach the store on commit.            *)

\* Each up to cur.First(): begin the transaction and place the cursor.
EachBegin ==
    /\ pc = "idle"
    /\ op' = [name |-> "Each"]
    /\ tx' = [bh |-> bh, bph |-> bph, bphd |-> bphd]
    /\ cur' = Cursor(bph)
    /\ pc' = IF Cursor(bph) = <<>> THEN "commit" ELSE "scan"
    /\ updateErr' = <<>>
    /\ calls' = <<>>
    /\ UNCHANGED <<store, trackConflicts, ret, ctxDone, doneAt, latest, cycleAdds, waiting>>

\* The caller cancels the context while Each runs: before the first entry,
\* during a callback, or after the last one.
Cancel ==
    /\ pc \in {"scan", "commit"}
    /\ ~ctxDone
    /\ ctxDone' = TRUE
    /\ doneAt' = Len(calls)
    /\ UNCHANGED <<store, trackConflicts, pc, op, ret, tx, cur, updateErr, calls,
                   latest, cycleAdds, waiting>>

\* A scan that never looks at the context.
DoneIgnored == FALSE

\* select { case <-ctx.Done(): ... default: }: the context is done.
Done == ctxDone

\* A slip in the aggregation: only the first error is kept.
AppendErrKeepsFirst(e, err) == IF e = <<>> THEN <<err>> ELSE e

\* multierror.Append(updateErr, err): the error joins the end of the list.
AppendErr(e, err) == Append(e, err)

\* case <-ctx.Done(): record ctx.Err() and break out of the scan.
EachCancelled ==
    /\ pc = "scan"
    /\ Done
    /\ updateErr' = AppendErr(updateErr, Canceled)
    /\ pc' = "commit"
    /\ UNCHANGED <<store, trackConflicts, op, ret, tx, cur, ctxDone, calls, doneAt,
                   latest, cycleAdds, waiting>>

\* bphd.Get(hash) == nil: panic("missing hash data"); the deferred Rollback
\* drops the transaction and the process aborts.
EachPanic ==
    /\ pc = "scan"
    /\ ~Done
    /\ ~Has(tx.bphd, cur[1].hash)
    /\ pc' = "panic"
    /\ ret' = <<[msg |-> "missing hash data", id |-> <<>>]>>
    /\ tx' = NoTx
    /\ UNCHANGED <<store, trackConflicts, op, cur, updateErr, ctxDone, calls, doneAt,
                   latest, cycleAdds, waiting>>

\* A slip in the promotion: the pending record is left behind.
PromoteKeepsPending(t, id, hash) ==
    [bh |-> Put(t.bh, id, hash), bph |-> t.bph, bphd |-> Delete(t.bphd, hash)]

\* The writes of Each after f returned nil for (id, hash).
Promote(t, id, hash) ==
    [bh |-> Put(t.bh, id, hash), bph |-> Delete(t.bph, id), bphd |-> Delete(t.bphd, hash)]

\* A slip in the loop: the promotion is written although f failed.
ApplyWritesAlways(t, id, hash, ok) == Promote(t, id, hash)

\* The transaction after f returned for (id, hash): promoted when f returned
\* nil, untouched when f failed (continue).
ApplyWrites(t, id, hash, ok) == IF ok THEN Promote(t, id, hash) ELSE t

\* One entry of the scan: look the payload up, call f, promote on success,
\* append the error and continue on failure; then cur.Next().
EachApply(ok) ==
    /\ pc = "scan"
    /\ ~Done
    /\ Has(tx.bphd, cur[1].hash)
    /\ LET id == cur[1].id
           hash == cur[1].hash
           data == Get(tx.bphd, hash)
       IN  /\ calls' = Append(calls, [id |-> id, data |-> data, ok |-> ok])
           /\ tx' = ApplyWrites(tx, id, hash, ok)
           /\ updateErr' = IF ok THEN updateErr ELSE AppendErr(updateErr, ErrApply(id))
    /\ cur' = Tail(cur)
    /\ pc' = IF Tail(cur) = <<>> THEN "commit" ELSE "scan"
    /\ UNCHANGED <<store, trackConflicts, op, ret, ctxDone, doneAt, latest, cycleAdds, waiting>>

\* The identities whose callback returned nil in this scan.
Applied == {calls[i].id : i \in {j \in 1 .. Len(calls) : calls[j].ok}}

\* tx.Commit() and return updateErr.ErrorOrNil().
EachCommitCall ==
    /\ pc = "commit"
    /\ bh' = tx.bh
    /\ bph' = tx.bph
    /\ bphd' = tx.bphd
    /\ ret' = updateErr
    /\ pc' = "returned"
    /\ UNCHANGED <<bkc, trackConflicts, op, scan>>

EachCommit == EachCommitCall /\ UNCHANGED <<latest, cycleAdds, waiting>>

\* The caller takes the result; the handle is ready for the next call.
Return ==
    /\ pc = "returned"
    /\ pc' = "idle"
    /\ op' = NoOp
    /\ ret' = <<>>
    /\ NoScan
    /\ UNCHANGED <<store, trackConflicts, latest, cycleAdds, waiting>>

Next ==
    \/ \E id \in Ids, x \in Values : Add(id, x)
    \/ MustNotConflict
    \/ OnCommit
    \/ \E id \in Ids, x \in Values : Changed(id, x)
    \/ EachBegin
    \/ Cancel
    \/ EachCancelled
    \/ EachPanic
    \/ \E ok \in BOOLEAN : EachApply(ok)
    \/ EachCommit
    \/ Return

Spec == Init /\ [][Next]_vars

-----------------------------------------------------------------------------
(* The same program with two observers switched on: latest remembers, per   *)
(* identity, the value of the most recent Add the store accepted and has    *)
(* not applied yet; cycleAdds remembers which identities had an accepted    *)
(* Add since the last MustNotConflict.                                      *)

AddObserved(id, x) ==
    /\ AddCall(id, x)
    /\ latest' = IF Conflicts(id) THEN latest ELSE [latest EXCEPT ![id] = x]
    /\ cycleAdds' = IF trackConflicts /\ ~Conflicts(id)
                    THEN cycleAdds \cup {id} ELSE cycleAdds
    /\ UNCHANGED waiting

MustNotConflictObserved ==
    /\ MustNotConflictCall
    /\ cycleAdds' = {}
    /\ UNCHANGED <<latest, waiting>>

EachCommitObserved ==
    /\ EachCommitCall
    /\ latest' = [id \in Ids |-> IF id \in Applied THEN -1 ELSE latest[id]]
    /\ UNCHANGED <<cycleAdds, waiting>>

NextObserved ==
    \/ \E id \in Ids, x \in Values : AddObserved(id, x)
    \/ MustNotConflictObserved
    \/ OnCommit
    \/ \E id \in Ids, x \in Values : Changed(id, x)
    \/ EachBegin
    \/ Cancel
    \/ EachCancelled
    \/ EachPanic
    \/ \E ok \in BOOLEAN : EachApply(ok)
    \/ EachCommitObserved
    \/ Return

SpecObserved == Init /\ [][NextObserved]_vars

-----------------------------------------------------------------------------
(* The same program with the operations of DB on the collection: Open on a  *)
(* collection that exists (a second handle, or the first handle of a new    *)
(* process) and Delete.                                                     *)

\* The operations of a Differential; each begins with tx.Bucket(diff.q).
HandleOps == {"MustNotConflict", "Add", "Changed", "CountTracking",
              "CountChanges", "Each", "ViewUserData", "UpdateUserData"}

\* DB.Open(name): the buckets that exist keep their content, those that do
\* not are created empty (_dk is left as it is); the handle returned starts
\* with trackConflicts unset.  The caller goes on with the new handle.
Open ==
    /\ pc \in {"idle", "panic", "deleted", "crashed"}
    /\ trackConflicts' = FALSE
    /\ pc' = "returned"
    /\ op' = [name |-> "Open"]
    /\ ret' = <<>>
    /\ NoScan
    /\ UNCHANGED <<store, latest, cycleAdds, waiting>>

\* DB.Delete(name): tx.DeleteBucket(q) removes the collection with every
\* bucket in it; the handle is left without a collection.
DBDelete ==
    /\ pc = "idle"
    /\ bh' = EmptyBucket
    /\ bph' = EmptyBucket
    /\ bphd' = EmptyBucket
    /\ bkc' = EmptyBucket
    /\ pc' = "deleted"
    /\ op' = [name |-> "Delete"]
    /\ ret' = <<>>
    /\ UNCHANGED <<trackConflicts, scan, latest, cycleAdds, waiting>>

\* A call on the handle of a deleted collection: tx.Bucket(diff.q) is nil and
\* the bucket lookup on it is a nil dereference; the process aborts.
NilBucket(name) ==
    /\ pc = "deleted"
    /\ pc' = "crashed"
    /\ op' = [name |-> name]
    /\ ret' = <<[msg |-> "nil bucket", id |-> <<>>]>>
    /\ UNCHANGED <<store, trackConflicts, scan, latest, cycleAdds, waiting>>

NextLifecycle ==
    \/ Next
    \/ Open
    \/ DBDelete
    \/ \E name \in HandleOps : NilBucket(name)

SpecLifecycle == Init /\ [][NextLifecycle]_vars

-----------------------------------------------------------------------------
(* The same program on a store whose writes, commits and payload encoding   *)
(* can fail.  A failing Add leaves db.Update with an error, a failing Each  *)
(* returns with the deferred tx.Rollback() pending: either way the          *)
(* transaction, with the writes made so far, is rolled back.                *)

ErrStore == [msg |-> "store failed", id |-> <<>>]
ErrEncode == [msg |-> "encode failed", id |-> <<>>]

\* The statements of Add that can return an error after the comparisons, and
\* the commit of db.Update, which runs whenever the function returned nil.
AddFailPoints == {"deletePayload", "putPending", "marshal", "putPayload",
                  "putMarker", "commit"}

\* The statements of Each that can return an error.
EachFailPoints == {"putCommitted", "deletePending", "deletePayload", "commit"}

\* A slip in the error path: the writes made so far are committed.
RollbackKeepsWrites(committed, working) == working

\* Rollback of a write transaction: the store keeps what was committed.
Rollback(committed, working) == committed

\* The buckets of Add's transaction when the statement `at` fails.  At the
\* commit the function has returned nil: with every write made, or, when x
\* matches the Committed or the Pending Record, with none.
AddWrites(id, x, at) ==
    LET hash == HashOf(x)
        stale == IF Has(bph, id) THEN Delete(bphd, Get(bph, id)) ELSE bphd
        noop == MatchCommitted(id, hash) \/ MatchPending(id, hash)
    IN  CASE at = "deletePayload" ->
                 [bh |-> bh, bph |-> bph, bphd |-> bphd, bkc |-> bkc]
          [] at = "putPending"    ->
                 [bh |-> bh, bph |-> bph, bphd |-> stale, bkc |-> bkc]
          [] at \in {"marshal", "putPayload"} ->
                 [bh |-> bh, bph |-> Put(bph, id, hash), bphd |-> stale,
                  bkc |-> bkc]
          [] at = "putMarker"     ->
                 [bh |-> bh, bph |-> Put(bph, id, hash),
                  bphd |-> AddPayload(id, hash, Marshal(x)), bkc |-> bkc]
          [] at = "commit" /\ noop ->
                 [bh |-> bh, bph |-> bph, bphd |-> bphd, bkc |-> bkc]
          [] at = "commit" /\ ~noop ->
                 [bh |-> bh, bph |-> Put(bph, id, hash),
                  bphd |-> AddPayload(id, hash, Marshal(x)),
                  bkc |-> IF trackConflicts THEN Put(bkc, id, <<>>) ELSE bkc]

\* Add(id, x) in which the statement `at` returns an error.  An Add that
\* returns early on a match makes no write and can fail at the commit only.
AddFail(id, x, at) ==
    /\ pc = "idle"
    /\ ~Conflicts(id)
    /\ at # "commit" =>
          ~MatchCommitted(id, HashOf(x)) /\ ~MatchPending(id, HashOf(x))
    /\ at = "deletePayload" => Has(bph, id)
    /\ at = "putMarker" => trackConflicts
    /\ pc' = "returned"
    /\ op' = [name |-> "Add", id |-> id, x |-> x]
    /\ ret' = <<IF at = "marshal" THEN ErrEncode ELSE ErrStore>>
    /\ LET after == Rollback([bh |-> bh, bph |-> bph, bphd |-> bphd,
                              bkc |-> bkc],
                             AddWrites(id, x, at))
       IN  /\ bh' = after.bh /\ bph' = after.bph /\ bphd' = after.bphd
           /\ bkc' = after.bkc
    /\ UNCHANGED <<trackConflicts, scan, latest, cycleAdds, waiting>>

\* The transaction of Each when the statement `at` fails for (id, hash).
EachWrites(t, id, hash, at) ==
    CASE at = "putCommitted"  -> t
      [] at = "deletePending" -> [t EXCEPT !.bh = Put(t.bh, id, hash)]
      [] at = "deletePayload" ->
             [t EXCEPT !.bh = Put(t.bh, id, hash), !.bph = Delete(t.bph, id)]

\* Each in which a write of the promotion of the current entry, or the
\* commit, returns an error: return err, deferred Rollback.
EachFail(at) ==
    /\ IF at = "commit"
       THEN /\ pc = "commit"
            /\ UNCHANGED <<tx, calls, cur>>
       ELSE /\ pc = "scan"
            /\ ~Done
            /\ Has(tx.bphd, cur[1].hash)
            /\ calls' = Append(calls, [id |-> cur[1].id,
                                       data |-> Get(tx.bphd, cur[1].hash),
                                       ok |-> TRUE])
            /\ tx' = EachWrites(tx, cur[1].id, cur[1].hash, at)
            /\ cur' = Tail(cur)
    /\ pc' = "returned"
    /\ ret' = <<ErrStore>>
    /\ LET after == Rollback([bh |-> bh, bph |-> bph, bphd |-> bphd], tx')
       IN  bh' = after.bh /\ bph' = after.bph /\ bphd' = after.bphd
    /\ UNCHANGED <<bkc, trackConflicts, op, updateErr, ctxDone, doneAt,
                   latest, cycleAdds, waiting>>

\* MustNotConflict in which DeleteBucket, CreateBucket or the commit returns
\* an error: the transaction is rolled back and the commit handler never runs.
MustNotConflictFail ==
    /\ pc = "idle"
    /\ pc' = "returned"
    /\ op' = [name |-> "MustNotConflict"]
    /\ ret' = <<ErrStore>>
    /\ bkc' = Rollback(bkc, ResetMarkers(bkc))
    /\ UNCHANGED <<bh, bph, bphd, trackConflicts, scan, latest, cycleAdds, waiting>>

NextFaults ==
    \/ Next
    \/ MustNotConflictFail
    \/ \E id \in Ids, x \in Values, at \in AddFailPoints : AddFail(id, x, at)
    \/ \E at \in EachFailPoints : EachFail(at)

SpecFaults == Init /\ [][NextFaults]_vars

-----------------------------------------------------------------------------
(* The same program with callers on other goroutines, and with apply        *)
(* callbacks that call back into the database.  The store has one write     *)
(* lock: db.Begin(true) takes it, Commit and Rollback release it, and a     *)
(* call that needs it while it is held waits.  One other goroutine calls    *)
(* Add while the main goroutine calls Add, MustNotConflict and Each;        *)
(* cancellation, which never touches the lock, stays switched off.          *)

\* The write operations a callback can issue on the database of its scan.
WriteOps == {"Add", "MustNotConflict", "UpdateUserData"}

\* A store without a write lock: no writer ever waits.
WriteLockNever == FALSE

\* The write lock is held: Each began its transaction and has neither
\* committed nor rolled back.
WriteLockHeld == pc \in {"scan", "commit", "blocked"}

\* Add(id, x) called on the other goroutine while a call of the main
\* goroutine is in flight: the call asks for the write lock.
AddConcurrent(id, x) ==
    /\ pc \in {"scan", "commit", "oncommit"}
    /\ \A r \in waiting : r.by # "goroutine"
    /\ waiting' = waiting \cup {[by |-> "goroutine", name |-> "Add",
                                  id |-> id, x |-> x]}
    /\ UNCHANGED <<store, trackConflicts, pc, op, ret, scan, latest, cycleAdds>>

\* A waiting Add gets the write lock, which a commit or a rollback (that of
\* a panicking Each included) released, and runs its transaction.
AddRun ==
    /\ ~WriteLockHeld
    /\ \E r \in waiting :
          /\ r.by = "goroutine"
          /\ AddTx(r.id, r.x)
          /\ waiting' = waiting \ {r}
    /\ UNCHANGED <<bh, trackConflicts, pc, op, ret, scan, latest, cycleAdds>>

\* The transaction of an Add that read trackConflicts unset at its conflict
\* check and set at its marker write.
AddTxRacing(id, x) ==
    LET hash == HashOf(x) IN
    IF MatchCommitted(id, hash) \/ MatchPending(id, hash) THEN
        UNCHANGED <<bph, bphd, bkc>>
    ELSE
        /\ bph' = Put(bph, id, hash)
        /\ bphd' = AddPayload(id, hash, Marshal(x))
        /\ bkc' = Put(bkc, id, <<>>)

\* A waiting Add runs between the commit of MustNotConflict and its commit
\* handler, and the handler sets the flag, unsynchronised, while the Add is
\* between its two reads of it: no conflict check, but a marker.
AddRunRacing ==
    /\ pc = "oncommit"
    /\ ~trackConflicts
    /\ \E r \in waiting :
          /\ r.by = "goroutine"
          /\ AddTxRacing(r.id, r.x)
          /\ waiting' = waiting \ {r}
    /\ trackConflicts' = TRUE
    /\ pc' = "returned"
    /\ UNCHANGED <<bh, op, ret, scan, latest, cycleAdds>>

\* The callback of the current entry calls a write operation of the database
\* it is scanning: db.Update needs the write lock its own Each holds.
CallbackWrite(name, id, x) ==
    /\ pc = "scan"
    /\ ~Done
    /\ Has(tx.bphd, cur[1].hash)
    /\ IF WriteLockHeld
       THEN /\ pc' = "blocked"
            /\ waiting' = waiting \cup {[by |-> "callback", name |-> name,
                                          id |-> id, x |-> x]}
            /\ UNCHANGED <<bph, bphd, bkc>>
       ELSE /\ pc' = pc
            /\ IF name = "Add" THEN AddTx(id, x) ELSE UNCHANGED <<bph, bphd, bkc>>
            /\ UNCHANGED waiting
    /\ UNCHANGED <<bh, trackConflicts, op, ret, scan, latest, cycleAdds>>

NextConcurrent ==
    \/ \E id \in Ids, x \in Values : Add(id, x)
    \/ MustNotConflict
    \/ OnCommit
    \/ EachBegin
    \/ EachPanic
    \/ \E ok \in BOOLEAN : EachApply(ok)
    \/ EachCommit
    \/ Return
    \/ \E id \in Ids, x \in Values : AddConcurrent(id, x)
    \/ AddRun
    \/ AddRunRacing
    \/ \E id \in Ids, x \in Values : CallbackWrite("Add", id, x)
    \/ \E name \in WriteOps \ {"Add"} : CallbackWrite(name, <<>>, 0)

SpecConcurrent == Init /\ [][NextConcurrent]_vars

\* The program of one goroutine whose apply callbacks may call back into the
\* database.
NextReentrant ==
    \/ Next
    \/ \E id \in Ids, x \in Values : CallbackWrite("Add", id, x)
    \/ \E name \in WriteOps \ {"Add"} : CallbackWrite(name, <<>>, 0)

SpecReentrant == Init /\ [][NextReentrant]_vars

-----------------------------------------------------------------------------
(* Properties.                                                              *)

\* The errors of a returned error list, as a set.
Errors(e) == {e[i] : i \in 1 .. Len(e)}

\* No two pending records of bucket b hold the same fingerprint.
DistinctFingerprints(b) ==
    \A i, j \in DOMAIN b : i # j => BytesCompare(b[i], b[j]) # 0

\* The step is the call Add(id, x) made on an idle handle.
IsAdd(id, x) == pc = "idle" /\ op' = [name |-> "Add", id |-> id, x |-> x]

\* The step is the commit and return of an Each.
IsEachReturn == pc = "commit" /\ pc' = "returned" /\ op.name = "Each"

\* C1: every identity that has a Pending Record with fingerprint h also has a
\* Pending Payload stored under h, in every state of the store.
C1_PendingHasPayload == \A id \in DOMAIN bph : Has(bphd, bph[id])

\* C2: Each never reaches the "missing hash data" abort through Add, Each and
\* MustNotConflict alone.
C2_NoMissingHashData == pc # "panic"

\* C3: the value Each delivers to the callback for an identity is the value
\* passed to the most recent Add for that identity.
C3_LatestAddIsDelivered ==
    pc \in {"scan", "commit"} =>
        \A i \in 1 .. Len(calls) : Decode(calls[i].data) = latest[calls[i].id]

\* C4: while conflict tracking is active, an Add for an identity that already
\* had an Add in the same cycle (whatever that Add did) fails with
\* ErrConflictingKey.
C4_SecondAddInCycleFails ==
    [][\A id \in Ids, x \in Values :
          (IsAdd(id, x) /\ trackConflicts /\ id \in cycleAdds)
              => ret' = <<ErrConflictingKey>>]_vars

\* C5: with conflict tracking active, an Add for an identity without a
\* Conflict Marker succeeds, and an Add for an identity that carries one
\* returns ErrConflictingKey and leaves all four regions as they were.
C5_ConflictingAddRejected ==
    [][\A id \in Ids, x \in Values :
          (IsAdd(id, x) /\ trackConflicts) =>
              IF id \in DOMAIN bkc
              THEN /\ ret' = <<ErrConflictingKey>>
                   /\ bh' = bh /\ bph' = bph /\ bphd' = bphd /\ bkc' = bkc
              ELSE ret' = <<>>]_vars

\* C5 witness: the second identity marked in the cycle exists and an Add for a
\* marked identity has just been rejected.
C5_Witness ==
    /\ pc = "returned" /\ op.name = "Add"
    /\ ret = <<ErrConflictingKey>>
    /\ op.id \in DOMAIN bkc
    /\ KeyN(bkc) >= 2

\* C6: a scan over n pending identities with distinct fingerprints, all
\* callbacks succeeding, cancelled during the k-th callback (1 <= k < n):
\* k callbacks ran, on the first k identities in ascending order; exactly
\* those are committed and lost their Pending Record and Payload; the other
\* records and payloads are unchanged; the error holds the cancellation.
C6_CancelKeepsCompletedWork ==
    [][(/\ IsEachReturn
        /\ DistinctFingerprints(bph)
        /\ \A i \in 1 .. Len(calls) : calls[i].ok
        /\ ctxDone /\ doneAt >= 1 /\ doneAt < KeyN(bph))
       =>
       LET k == doneAt
           first == {Cursor(bph)[i].id : i \in 1 .. k}
       IN  /\ Len(calls) = k
           /\ \A i \in 1 .. k : calls[i].id = Cursor(bph)[i].id
           /\ \A id \in first :
                  /\ id \in DOMAIN bh' /\ bh'[id] = bph[id]
                  /\ id \notin DOMAIN bph'
                  /\ bph[id] \notin DOMAIN bphd'
           /\ \A id \in Ids \ first :
                  /\ (id \in DOMAIN bh') = (id \in DOMAIN bh)
                  /\ Get(bh', id) = Get(bh, id)
           /\ \A id \in (DOMAIN bph) \ first :
                  /\ id \in DOMAIN bph' /\ bph'[id] = bph[id]
                  /\ (bph[id] \in DOMAIN bphd') = (bph[id] \in DOMAIN bphd)
                  /\ Get(bphd', bph[id]) = Get(bphd, bph[id])
           /\ KeyN(bph') = KeyN(bph) - k
           /\ Canceled \in Errors(ret')]_vars

\* C6 witness: an Each returned the cancellation after k >= 1 successful
\* callbacks, all of them before the cancellation was seen, with pending
\* records left over.
C6_Witness ==
    /\ pc = "returned" /\ op.name = "Each"
    /\ ctxDone /\ doneAt >= 1 /\ Len(calls) = doneAt
    /\ \A i \in 1 .. Len(calls) : calls[i].ok /\ calls[i].id \in DOMAIN bh
    /\ Canceled \in Errors(ret)
    /\ KeyN(bph) >= 1
    /\ DistinctFingerprints(bph)
    /\ C1_PendingHasPayload

\* C7: when the callback fails for identity k only and the scan is not
\* cancelled, every other pending identity is committed, k's Pending Record
\* and Pending Payload are still there unchanged after Each returns, and the
\* returned error holds k's failure.
C7_FailureIsolation ==
    [][\A k \in Ids :
          (/\ IsEachReturn
           /\ Canceled \notin Errors(updateErr)
           /\ Len(calls) = KeyN(bph)
           /\ \A i \in 1 .. Len(calls) : calls[i].ok = (calls[i].id # k)
           /\ k \in DOMAIN bph)
          =>
          /\ k \in DOMAIN bph' /\ bph'[k] = bph[k]
          /\ bph[k] \in DOMAIN bphd' /\ bphd'[bph[k]] = bphd[bph[k]]
          /\ \A id \in (DOMAIN bph) \ {k} :
                 /\ id \in DOMAIN bh' /\ bh'[id] = bph[id]
                 /\ id \notin DOMAIN bph'
          /\ ErrApply(k) \in Errors(ret')]_vars

\* C8: an Add whose fingerprint equals the identity's Committed Record or its
\* Pending Record changes no region, so the pending count stays what it was.
C8_MatchingAddIsNoOp ==
    [][\A id \in Ids, x \in Values :
          (/\ IsAdd(id, x)
           /\ \/ id \in DOMAIN bh /\ bh[id] = HashOf(x)
              \/ id \in DOMAIN bph /\ bph[id] = HashOf(x))
          =>
          /\ bh' = bh /\ bph' = bph /\ bphd' = bphd /\ bkc' = bkc
          /\ KeyN(bph') = KeyN(bph)]_vars

\* C8 witness: Add(id, v) returned nil right after id was committed at v and
\* there is no Pending Record for id.
C8_Witness ==
    /\ pc = "returned" /\ op.name = "Add" /\ ret = <<>>
    /\ op.id \in DOMAIN bh /\ bh[op.id] = HashOf(op.x)
    /\ op.id \notin DOMAIN bph

\* C9: an uncancelled Each over pending identities with distinct fingerprints
\* invokes the callback exactly once per Pending Record, in ascending
\* identity order, with that identity and its payload, and promotes every
\* identity whose callback succeeds.
C9_ApplyPromotes ==
    (/\ op.name = "Each"
     /\ pc \in {"commit", "panic"}
     /\ ~ctxDone
     /\ DistinctFingerprints(bph))
    =>
    /\ Len(calls) = KeyN(bph)
    /\ \A i \in 1 .. Len(calls) :
           /\ calls[i].id = Cursor(bph)[i].id
           /\ calls[i].data = Get(bphd, bph[calls[i].id])
           /\ calls[i].ok =>
                  /\ Get(tx.bh, calls[i].id) = bph[calls[i].id]
                  /\ calls[i].id \notin DOMAIN tx.bph
                  /\ bph[calls[i].id] \notin DOMAIN tx.bphd

\* C10: the Committed Record and the Pending Record of an identity never hold
\* the same fingerprint, in the store and in a scan's transaction.
C10_CommittedDiffersFromPending ==
    /\ \A id \in (DOMAIN bh) \cap (DOMAIN bph) : BytesCompare(bh[id], bph[id]) # 0
    /\ \A id \in (DOMAIN tx.bh) \cap (DOMAIN tx.bph) :
           BytesCompare(tx.bh[id], tx.bph[id]) # 0

\* C10 witness: an identity that is committed and pending has just been added
\* again with the committed value (a revert).
C10_Witness ==
    /\ pc = "returned" /\ op.name = "Add" /\ ret = <<>>
    /\ op.id \in DOMAIN bh /\ op.id \in DOMAIN bph
    /\ bh[op.id] = HashOf(op.x)

\* The errors of the failed callbacks of a list of calls, in call order.
RECURSIVE FailuresOf(_)
FailuresOf(cs) ==
    IF cs = <<>> THEN <<>>
    ELSE (IF cs[1].ok THEN <<>> ELSE <<ErrApply(cs[1].id)>>) \o FailuresOf(Tail(cs))

\* The identities of a list of calls or of cursor entries, in order.
IdsOf(s) == [i \in 1 .. Len(s) |-> s[i].id]

\* C11 as stated: Each returns nil exactly when no callback failed and the
\* cancel signal was not triggered at any moment before Each returned.
C11_NilIffNoFailureNoCancel ==
    (pc = "returned" /\ op.name = "Each") =>
        (ret = <<>> <=> (FailuresOf(calls) = <<>> /\ ~ctxDone))

\* C11, amended: the result of Each is the list of the failures of its
\* callbacks in ascending identity order, followed by the cancellation error
\* exactly when the signal was triggered while an entry was still waiting to
\* be visited; a signal triggered with no entry left to visit is not reported.
C11_ErrorsInOrderCancelIfObserved ==
    (pc = "returned" /\ op.name = "Each") =>
        /\ ret = FailuresOf(calls)
                  \o (IF ctxDone /\ cur # <<>> THEN <<Canceled>> ELSE <<>>)
        /\ \A i, j \in 1 .. Len(calls) :
               i < j => BytesCompare(calls[i].id, calls[j].id) < 0

\* Both callbacks of a scan failed and Each returned both errors; and a
\* cancellation during the last callback went unreported.
C11_Witness ==
    /\ pc = "returned"
    /\ op.name = "Each"
    /\ Len(ret) = 2
    /\ ret[1] # ret[2]
    /\ ctxDone
    /\ cur = <<>>
    /\ doneAt = Len(calls)

\* C15: Changed(id, v) answers true exactly when id has no Committed Record
\* or its committed fingerprint differs from the fingerprint of v, whatever
\* the Pending Records hold, and it modifies no region of the store.
C15_ChangedIsPureRead ==
    [][(pc = "idle" /\ op'.name = "Changed") =>
          /\ op'.changed <=> (op'.id \notin DOMAIN bh \/ bh[op'.id] # HashOf(op'.x))
          /\ bh' = bh /\ bph' = bph /\ bphd' = bphd /\ bkc' = bkc
          /\ trackConflicts' = trackConflicts]_vars

\* Changed answered true for a new identity whose Pending Record already
\* holds the fingerprint of the value asked about (Add without apply).
C15_Witness ==
    /\ pc = "returned"
    /\ op.name = "Changed"
    /\ op.changed
    /\ op.id \notin DOMAIN bh
    /\ op.id \in DOMAIN bph
    /\ bph[op.id] = HashOf(op.x)
    /\ Has(bphd, bph[op.id])

\* C16: MustNotConflict removes every Conflict Marker and switches
\* enforcement on whatever the markers and the flag were before (so a second
\* call changes nothing), leaves Committed Records, Pending Records and
\* Pending Payloads as they were, and the Add that follows it is accepted for
\* every identity.
C16_MustNotConflictResets ==
    [][/\ (pc = "idle" /\ op'.name = "MustNotConflict") =>
             /\ pc' = "oncommit"
             /\ bkc' = EmptyBucket
             /\ ret' = <<>>
             /\ bh' = bh /\ bph' = bph /\ bphd' = bphd
             /\ bkc = EmptyBucket => bkc' = bkc
       /\ pc = "oncommit" =>
             /\ pc' = "returned"
             /\ trackConflicts'
             /\ ret' = <<>>
             /\ bh' = bh /\ bph' = bph /\ bphd' = bphd /\ bkc' = bkc
             /\ bkc = EmptyBucket
             /\ trackConflicts => trackConflicts' = trackConflicts
       /\ (pc = "idle" /\ op'.name = "Add" /\ trackConflicts /\ bkc = EmptyBucket) =>
             ret' = <<>>]_vars

\* After a reset, a changed value is accepted for an identity that was
\* applied before: it is the only marked identity and is pending again.
C16_Witness ==
    /\ pc = "returned"
    /\ op.name = "Add"
    /\ ret = <<>>
    /\ trackConflicts
    /\ DOMAIN bkc = {op.id}
    /\ op.id \in DOMAIN bh
    /\ op.id \in DOMAIN bph
    /\ bph[op.id] = HashOf(op.x)
    /\ bh[op.id] # HashOf(op.x)

\* C17: short of DB.Delete, which removes the whole collection, no step
\* removes a Committed Record; Add, Changed and MustNotConflict (and Open)
\* leave the committed region as it is; the only step that changes it is the
\* commit of an Each, and then only for identities whose callback succeeded
\* in that scan.  The set of identities with a Committed Record never shrinks.
C17_CommittedOnlyByApply ==
    [][pc' # "deleted" =>
          /\ DOMAIN bh \subseteq DOMAIN bh'
          /\ KeyN(bh) <= KeyN(bh')
          /\ (pc = "idle" /\ op'.name \in {"Add", "Changed", "MustNotConflict", "Open"})
                => bh' = bh
          /\ bh' # bh =>
                /\ IsEachReturn
                /\ \A id \in DOMAIN bh' :
                       (id \notin DOMAIN bh \/ bh'[id] # bh[id]) => id \in Applied]_vars

\* On a handle opened anew (markers present, flag unset) an Each committed
\* with one callback succeeded and one failed: both identities have a
\* Committed Record, the failed one still its old one.
C17_Witness ==
    /\ pc = "returned"
    /\ op.name = "Each"
    /\ ~trackConflicts
    /\ bkc # EmptyBucket
    /\ \E i, j \in 1 .. Len(calls) :
          /\ calls[i].ok
          /\ ~calls[j].ok
          /\ calls[i].id \in DOMAIN bh
          /\ calls[j].id \in DOMAIN bh
          /\ calls[j].id \in DOMAIN bph
          /\ bh[calls[j].id] # bph[calls[j].id]

\* C18: every key of the Pending Payload region is the fingerprint of at
\* least one Pending Record, in every state of the store.
C18_NoOrphanedPayload ==
    \A h \in DOMAIN bphd : \E id \in DOMAIN bph : BytesCompare(bph[id], h) = 0

\* An Add superseded a Pending Record whose payload another identity shared:
\* payloads are left, and one Pending Record has lost its own.
C18_Witness ==
    /\ pc = "returned"
    /\ op.name = "Add"
    /\ ret = <<>>
    /\ bphd # EmptyBucket
    /\ \E id \in DOMAIN bph : ~Has(bphd, bph[id])

\* C19: a Conflict Marker appears only in an Add that wrote a Pending Record,
\* and only for the identity of that Add; markers disappear only in
\* MustNotConflict; no step of Each touches them.  An identity that was added
\* and then applied in the same cycle is therefore still marked: an Add with
\* a marked identity fails with ErrConflictingKey while tracking is on.
C19_MarkersOutliveApply ==
    [][/\ bkc' # bkc =>
             /\ pc = "idle"
             /\ \/ op'.name = "MustNotConflict" /\ bkc' = EmptyBucket
                \/ /\ op'.name = "Add"
                   /\ ret' = <<>>
                   /\ bph' # bph
                   /\ bph'[op'.id] = HashOf(op'.x)
                   /\ DOMAIN bkc' = DOMAIN bkc \cup {op'.id}
       /\ op.name = "Each" => bkc' = bkc
       /\ (pc = "idle" /\ op'.name = "Add" /\ trackConflicts /\ op'.id \in DOMAIN bkc) =>
             (ret' = <<ErrConflictingKey>> /\ bph' = bph /\ bphd' = bphd)]_vars

\* An identity was added and applied in the current cycle (it is marked, has
\* a Committed Record and nothing pending) and an Add with a changed value
\* was refused.
C19_Witness ==
    /\ pc = "returned"
    /\ op.name = "Add"
    /\ ret = <<ErrConflictingKey>>
    /\ trackConflicts
    /\ op.id \in DOMAIN bkc
    /\ op.id \in DOMAIN bh
    /\ op.id \notin DOMAIN bph
    /\ bh[op.id] # HashOf(op.x)

\* C14: when an Each has returned, every identity whose callback failed in it
\* still has its Pending Record and, under the fingerprint of that record,
\* the payload the callback was given, so that the next Each delivers it
\* again; and every identity the scan did not reach because of a
\* cancellation still has its Pending Record and a payload for it.
C14_UnappliedStayDeliverable ==
    (pc = "returned" /\ op.name = "Each") =>
        /\ \A i \in 1 .. Len(calls) :
               ~calls[i].ok =>
                   /\ Has(bph, calls[i].id)
                   /\ Has(bphd, bph[calls[i].id])
                   /\ bphd[bph[calls[i].id]] = calls[i].data
        /\ \A k \in 1 .. Len(cur) :
               /\ Has(bph, cur[k].id)
               /\ Has(bphd, bph[cur[k].id])

\* The step is a call that returns a store or encoding failure.
IsFailedCall ==
    /\ pc # "returned"
    /\ pc' = "returned"
    /\ \E e \in Errors(ret') : e \in {ErrStore, ErrEncode}

\* C13: a call that returns a store or encoding failure leaves Committed
\* Records, Pending Records, Pending Payloads and Conflict Markers exactly as
\* they were when the call began; after such an Each the identities whose
\* callback had succeeded are still pending with the payload they were
\* delivered with.
C13_FailedCallLeavesNoTrace ==
    [][IsFailedCall =>
          /\ bh' = bh /\ bph' = bph /\ bphd' = bphd /\ bkc' = bkc
          /\ trackConflicts' = trackConflicts
          /\ op'.name = "Each" =>
                \A i \in 1 .. Len(calls') :
                    calls'[i].ok =>
                        /\ Has(bph', calls'[i].id)
                        /\ Get(bphd', bph'[calls'[i].id]) = calls'[i].data]_vars

\* An Each failed at its commit after a callback had succeeded: the identity
\* is still pending and has no Committed Record.
C13_Witness ==
    /\ pc = "returned"
    /\ op.name = "Each"
    /\ ret = <<ErrStore>>
    /\ \E i \in 1 .. Len(calls) :
          /\ calls[i].ok
          /\ calls[i].id \in DOMAIN bph
          /\ calls[i].id \notin DOMAIN bh
          /\ calls[i].id \in DOMAIN tx.bh

\* C12: while an Each holds its transaction the store changes only by the
\* commit of that Each, which writes exactly the buckets of its transaction;
\* the entries the scan visits are the Pending Records the store held when
\* the scan began, so an Add issued meanwhile is not among them; and an Add
\* that waited for a scan runs as one whole transaction only after the scan
\* has committed (never after a scan that ended without committing), after
\* which, unless it was refused as conflicting, its identity holds the
\* fingerprint of its value as Pending or Committed Record.
C12_AddWaitsForScan ==
    [][/\ pc \in {"scan", "commit", "blocked"} =>
             \/ bh' = bh /\ bph' = bph /\ bphd' = bphd /\ bkc' = bkc
             \/ /\ pc = "commit" /\ pc' = "returned"
                /\ bh' = tx.bh /\ bph' = tx.bph /\ bphd' = tx.bphd /\ bkc' = bkc
       /\ pc \in {"scan", "commit"} =>
             IdsOf(calls) \o IdsOf(cur) = IdsOf(Cursor(bph))
       /\ \A r \in waiting \ waiting' :
             /\ r.by = "goroutine"
             /\ pc \notin {"scan", "commit", "blocked", "panic"}
             /\ bh' = bh
             /\ \/ trackConflicts /\ Has(bkc, r.id)
                \/ Get(bh', r.id) = HashOf(r.x)
                \/ Get(bph', r.id) = HashOf(r.x)]_vars

\* C20: a callback that calls Add, MustNotConflict or UpdateUserData on the
\* database being scanned waits for the lock of its own Each: its call has
\* not begun, and no step of the scan, no commit, no return and no waiting
\* Add is possible any more.  A scan whose callbacks make no such call can
\* always take its next step, and the callbacks it has invoked together with
\* the entries it has yet to visit are as many as the Pending Records of the
\* store, which are those present when it began: it ends after at most one
\* callback invocation per such record.
C20_CallbackWriteBlocksEach ==
    /\ (\E r \in waiting : r.by = "callback") <=> pc = "blocked"
    /\ pc = "blocked" =>
          ~ENABLED (\/ EachCancelled
                    \/ EachPanic
                    \/ \E ok \in BOOLEAN : EachApply(ok)
                    \/ EachCommit
                    \/ Return
                    \/ AddRun)
    /\ pc = "scan" =>
          ENABLED (EachCancelled \/ EachPanic \/ \E ok \in BOOLEAN : EachApply(ok))
    /\ pc = "commit" => ENABLED EachCommit
    /\ pc \in {"scan", "commit", "blocked"} =>
          /\ Len(calls) + Len(cur) = KeyN(bph)
          /\ \A i, j \in 1 .. Len(calls) : i # j => calls[i].id # calls[j].id

\* The second callback of a scan called MustNotConflict after the first had
\* succeeded: the scan is stuck with the promotion of the first uncommitted.
C20_Witness ==
    /\ pc = "blocked"
    /\ Len(calls) = 1
    /\ calls[1].ok
    /\ cur # <<>>
    /\ tx.bh # bh
    /\ \E r \in waiting : r.by = "callback" /\ r.name = "MustNotConflict"
====
